---------------------------- MODULE Spec2Model ----------------------------
(***************************************************************************)
(* A model of the quadtree package (quadtree.go).                          *)
(*                                                                         *)
(* Coordinates are float64 in the source.  Here they are exact rationals,  *)
(* kept as integers in units of 1/Scale: the initial box [0,0]-[1,1] is    *)
(* [0,0]-[Scale,Scale].  Scale = 100 * 2^10 makes every midpoint down to   *)
(* maxQuadtreeDepth and every product with expandFactor an integer.        *)
(* Twof{a, b} is the tuple <<a, b>>; axis i of the source is index i+1.    *)
(***************************************************************************)
EXTENDS Integers, Sequences, FiniteSets

\* Program constants (quadtree.go, lines 31-36).
maxQuadtreeDepth == 8
minObjectsPerQuadtree == 5
maxObjectsPerQuadtree == 10
\* expandFactor = 1.3, applied to a length v.
expandFactor(v) == (v * 13) \div 10

\* Units of one length 1.0, and the grid step 0.25 on which object positions,
\* query positions and radii lie.
Scale == 100 * 1024
Grid == Scale \div 4

---------------------------------------------------------------------------
\* Bounds of the model.
\* Objects 1..NumBallast are only ever added at Home, lowest free number
\* first, and removed highest number first; the highest one may be moved,
\* to Home only.
NumBallast == 10
\* Objects NumBallast+1 .. NumBallast+NumFree are added, moved and removed
\* at any position of Positions, in any order.
NumFree == 1
\* Threads of the concurrent specification, and the calls they start in all.
NumThreads == 2
MaxCalls == 4

Ballast == 1 .. NumBallast
Free == (NumBallast + 1) .. (NumBallast + NumFree)
Objects == Ballast \cup Free
Threads == 1 .. NumThreads

Home == <<Grid, Grid>>
\* Inside the initial box: three quadrants and the center (a routing tie);
\* outside: beyond corner2 on x only, and beyond corner2 on x and below
\* corner1 on y.
InsidePositions == {<<Grid, Grid>>, <<3 * Grid, 3 * Grid>>, <<2 * Grid, 2 * Grid>>}
OutsidePositions == {<<8 * Grid, Grid>>, <<8 * Grid, 0 - 4 * Grid>>}
Positions == InsidePositions \cup OutsidePositions

\* The zero value of Handle.pos before the first setPosition.
ZeroPos == <<0, 0>>

VARIABLES
    tree,       \* the Quadtree's embedded root quadtree node
    pos,        \* pos[o]: Handle.pos of object o
    tracked,    \* history: the objects added and not yet removed by the caller
    panicked,   \* TRUE once log.Panicln has ended the program
    misused,    \* history: TRUE once the caller has passed an untracked object
    mutex,      \* Quadtree.mutex: [w |-> writer or 0, r |-> set of readers]
    pc,         \* pc[th]: where thread th is in its current call
    call,       \* call[th]: the arguments and locals of thread th's call
    ncalls      \* the number of calls the threads have started

tvars == <<mutex, pc, call, ncalls>>
vars == <<tree, pos, tracked, panicked, misused, mutex, pc, call, ncalls>>

---------------------------------------------------------------------------
\* A quadtree node.  children is <<>> when all four pointers are nil, and
\* otherwise children[x+1][y+1] is the node *children[x][y].
Node(c1, c2, center, depth) ==
    [hasChildren |-> FALSE, depth |-> depth, numObjects |-> 0,
     corner1 |-> c1, corner2 |-> c2, center |-> center,
     children |-> <<>>, objects |-> <<>>]

\* quadtree.init on a zero node.
init(c1, c2, depth) ==
    Node(c1, c2, <<(c1[1] + c2[1]) \div 2, (c1[2] + c2[2]) \div 2>>, depth)

MakeQuadtree(c1, c2) == init(c1, c2, 0)

makequadtree(c1, c2, depth) == init(c1, c2, depth)

\* Squared distance, in units of Grid^2 (every position it is applied to is
\* a multiple of Grid, so the division is exact).
computeDist2(from, to) ==
    LET dx == (from[1] - to[1]) \div Grid
        dy == (from[2] - to[2]) \div Grid
    IN  dx * dx + dy * dy

\* The loop heads of fileObject: index x (0 or 1) of axis i is skipped
\* ("continue") when this is FALSE.
fileAxis(t, c, i, x) ==
    IF x = 0 THEN ~(c[i] > t.center[i]) ELSE ~(c[i] < t.center[i])

\* The child <<x, y>> that fileObject files position c under: the first pair,
\* in loop order, whose two tests pass.
fileQuadrant(t, c) ==
    LET x == IF fileAxis(t, c, 1, 0) THEN 0 ELSE 1
        y == IF fileAxis(t, c, 2, 0) THEN 0 ELSE 1
    IN  <<x, y>>

\* The same loops, written out again in testPresent.
testAxis(t, p, i, x) ==
    IF x = 0 THEN ~(p[i] > t.center[i]) ELSE ~(p[i] < t.center[i])

testQuadrant(t, p) ==
    LET x == IF testAxis(t, p, 1, 0) THEN 0 ELSE 1
        y == IF testAxis(t, p, 2, 0) THEN 0 ELSE 1
    IN  <<x, y>>

Child(t, q) == t.children[q[1] + 1][q[2] + 1]

SetChild(t, q, n) == [t EXCEPT !.children[q[1] + 1][q[2] + 1] = n]

RECURSIVE collectObjects(_, _)
\* collectObjects(t, os): the list *os after t.collectObjects(os).
collectObjects(t, os) ==
    IF t.hasChildren
    THEN collectObjects(Child(t, <<1, 1>>),
           collectObjects(Child(t, <<1, 0>>),
             collectObjects(Child(t, <<0, 1>>),
               collectObjects(Child(t, <<0, 0>>), os))))
    ELSE os \o t.objects

\* destroyChildren: t.objects is replaced by an empty list first, and
\* collectObjects then appends to that list.  On a leaf it appends the
\* (now empty) list to itself.
destroyChildren(t) ==
    LET t1 == [t EXCEPT !.objects = <<>>]
        t2 == [t1 EXCEPT !.objects = collectObjects(t1, t1.objects)]
    IN  [t2 EXCEPT !.children = <<>>, !.hasChildren = FALSE]

RECURSIVE add(_, _, _)
RECURSIVE fileAdd(_, _, _)
RECURSIVE fileAll(_, _, _)
RECURSIVE makeChildren(_, _)

\* fileObject(o, true): o goes to the child its current position P[o] selects.
fileAdd(t, o, P) ==
    LET q == fileQuadrant(t, P[o])
    IN  SetChild(t, q, add(Child(t, q), o, P))

\* The loop "for _, it := range t.objects { t.fileObject(it, true) }".
fileAll(t, os, P) ==
    IF os = <<>> THEN t ELSE fileAll(fileAdd(t, Head(os), P), Tail(os), P)

\* makeChildren without "t.objects = nil": the node keeps its list when it
\* becomes internal.
makeChildrenKeep(t, P) ==
    LET box(x, y) ==
            makequadtree(
                <<IF x = 0 THEN t.corner1[1] ELSE t.center[1],
                  IF y = 0 THEN t.corner1[2] ELSE t.center[2]>>,
                <<IF x = 0 THEN t.center[1] ELSE t.corner2[1],
                  IF y = 0 THEN t.center[2] ELSE t.corner2[2]>>,
                t.depth + 1)
        t1 == [t EXCEPT !.children = << <<box(0, 0), box(0, 1)>>,
                                        <<box(1, 0), box(1, 1)>> >>]
        t2 == fileAll(t1, t.objects, P)
    IN  [t2 EXCEPT !.hasChildren = TRUE]

makeChildren(t, P) ==
    LET box(x, y) ==
            makequadtree(
                <<IF x = 0 THEN t.corner1[1] ELSE t.center[1],
                  IF y = 0 THEN t.corner1[2] ELSE t.center[2]>>,
                <<IF x = 0 THEN t.center[1] ELSE t.corner2[1],
                  IF y = 0 THEN t.center[2] ELSE t.corner2[2]>>,
                t.depth + 1)
        t1 == [t EXCEPT !.children = << <<box(0, 0), box(0, 1)>>,
                                        <<box(1, 0), box(1, 1)>> >>]
        t2 == fileAll(t1, t.objects, P)
    IN  [t2 EXCEPT !.objects = <<>>, !.hasChildren = TRUE]

\* add with the split one object late: a leaf splits only when it is asked
\* to hold maxObjectsPerQuadtree + 2 objects.
addLate(t, o, P) ==
    LET t1 == [t EXCEPT !.numObjects = @ + 1]
        t2 == IF ~t1.hasChildren /\ t1.depth < maxQuadtreeDepth
                 /\ t1.numObjects > maxObjectsPerQuadtree + 1
              THEN makeChildren(t1, P)
              ELSE t1
    IN  IF t2.hasChildren
        THEN fileAdd(t2, o, P)
        ELSE [t2 EXCEPT !.objects = Append(@, o)]

add(t, o, P) ==
    LET t1 == [t EXCEPT !.numObjects = @ + 1]
        t2 == IF ~t1.hasChildren /\ t1.depth < maxQuadtreeDepth
                 /\ t1.numObjects > maxObjectsPerQuadtree
              THEN makeChildren(t1, P)
              ELSE t1
    IN  IF t2.hasChildren
        THEN fileAdd(t2, o, P)
        ELSE [t2 EXCEPT !.objects = Append(@, o)]

\* The index of the first o in list os, 0 when there is none.
IndexOf(os, o) ==
    IF \E i \in 1 .. Len(os) : os[i] = o
    THEN CHOOSE i \in 1 .. Len(os) : os[i] = o /\ \A j \in 1 .. (i - 1) : os[j] # o
    ELSE 0

\* The leaf branch of remove: the last element takes the place of o.
removeFromList(os, i) ==
    LET last == Len(os)
    IN  IF i = last
        THEN SubSeq(os, 1, last - 1)
        ELSE SubSeq([os EXCEPT ![i] = os[last]], 1, last - 1)

RECURSIVE removeSilent(_, _, _)
\* remove with the final log.Panicln left out: an object that is not in the
\* leaf list is passed over in silence.
removeSilent(t, o, P) ==
    LET t1 == [t EXCEPT !.numObjects = @ - 1]
    IN  IF t1.numObjects < 0
        THEN [node |-> t1, ok |-> FALSE]
        ELSE LET t2 == IF t1.hasChildren /\ t1.numObjects < minObjectsPerQuadtree
                       THEN destroyChildren(t1)
                       ELSE t1
             IN  IF t2.hasChildren
                 THEN LET q == fileQuadrant(t2, P[o])
                          r == removeSilent(Child(t2, q), o, P)
                      IN  [node |-> SetChild(t2, q, r.node), ok |-> r.ok]
                 ELSE LET i == IndexOf(t2.objects, o)
                      IN  IF i = 0
                          THEN [node |-> t2, ok |-> TRUE]
                          ELSE [node |-> [t2 EXCEPT !.objects = removeFromList(@, i)],
                                ok |-> TRUE]

RECURSIVE removeEager(_, _, _)
\* remove with the merge threshold at the split threshold: an internal node
\* merges as soon as it counts maxObjectsPerQuadtree objects or fewer.
removeEager(t, o, P) ==
    LET t1 == [t EXCEPT !.numObjects = @ - 1]
    IN  IF t1.numObjects < 0
        THEN [node |-> t1, ok |-> FALSE]
        ELSE LET t2 == IF t1.hasChildren /\ t1.numObjects < maxObjectsPerQuadtree + 1
                       THEN destroyChildren(t1)
                       ELSE t1
             IN  IF t2.hasChildren
                 THEN LET q == fileQuadrant(t2, P[o])
                          r == removeEager(Child(t2, q), o, P)
                      IN  [node |-> SetChild(t2, q, r.node), ok |-> r.ok]
                 ELSE LET i == IndexOf(t2.objects, o)
                      IN  IF i = 0
                          THEN [node |-> t2, ok |-> FALSE]
                          ELSE [node |-> [t2 EXCEPT !.objects = removeFromList(@, i)],
                                ok |-> TRUE]

RECURSIVE remove(_, _, _)
\* remove(t, o, P) is [node |-> t after the call, ok |-> FALSE iff it ended
\* in log.Panicln].  A panic leaves the changes made so far in place.
remove(t, o, P) ==
    LET t1 == [t EXCEPT !.numObjects = @ - 1]
    IN  IF t1.numObjects < 0
        THEN [node |-> t1, ok |-> FALSE]
        ELSE LET t2 == IF t1.hasChildren /\ t1.numObjects < minObjectsPerQuadtree
                       THEN destroyChildren(t1)
                       ELSE t1
             IN  IF t2.hasChildren
                 THEN \* fileObject(o, false)
                      LET q == fileQuadrant(t2, P[o])
                          r == remove(Child(t2, q), o, P)
                      IN  [node |-> SetChild(t2, q, r.node), ok |-> r.ok]
                 ELSE LET i == IndexOf(t2.objects, o)
                      IN  IF i = 0
                          THEN [node |-> t2, ok |-> FALSE]
                          ELSE [node |-> [t2 EXCEPT !.objects = removeFromList(@, i)],
                                ok |-> TRUE]

RECURSIVE testPresent(_, _, _)
testPresent(t, o, p) ==
    IF ~t.hasChildren
    THEN \E i \in 1 .. Len(t.objects) : t.objects[i] = o
    ELSE testPresent(Child(t, testQuadrant(t, p)), o, p)

\* checkExpand on the root.  The center is left as it was.
checkExpand(t, tf) ==
    LET low(i) == tf[i] < t.corner1[i]
        high(i) == tf[i] > t.corner2[i]
        new1(i) == IF low(i)
                   THEN t.corner2[i] - expandFactor(t.corner2[i] - tf[i])
                   ELSE t.corner1[i]
        new2(i) == IF high(i)
                   THEN t.corner1[i] + expandFactor(tf[i] - t.corner1[i])
                   ELSE t.corner2[i]
        changed == low(1) \/ high(1) \/ low(2) \/ high(2)
    IN  IF ~changed
        THEN t
        ELSE [destroyChildren(t) EXCEPT !.corner1 = <<new1(1), new1(2)>>,
                                        !.corner2 = <<new2(1), new2(2)>>]

RECURSIVE findNearObjects(_, _, _, _, _)
\* findNearObjects(t, p, dist, objList, P): *objList after the call.
findNearObjects(t, p, dist, objList, P) ==
    LET dist2 == (dist \div Grid) * (dist \div Grid)
        near(os) == SelectSeq(os, LAMBDA o : ~(computeDist2(p, P[o]) > dist2))
        skip(i, x) == IF x = 0 THEN p[i] - dist > t.center[i]
                               ELSE p[i] + dist < t.center[i]
        visit(x, y, l) == IF skip(1, x) \/ skip(2, y)
                          THEN l
                          ELSE findNearObjects(Child(t, <<x, y>>), p, dist, l, P)
    IN  IF ~t.hasChildren
        THEN objList \o near(t.objects)
        ELSE visit(1, 1, visit(1, 0, visit(0, 1, visit(0, 0, objList))))

\* Quadtree.Empty
Empty(t) == t.numObjects = 0 /\ ~t.hasChildren /\ Len(t.objects) = 0

---------------------------------------------------------------------------
\* The sequential specification: one caller, each public call one step.

\* A thread that is in no call.  to is the position argument (of a query: its
\* center), old the position the object had when Move probed, done the axes
\* Move's local setPosition has stored so far, result the list a query returns.
NoCall ==
    [op |-> "none", o |-> 0, to |-> ZeroPos, dist |-> 0, old |-> ZeroPos,
     done |-> {}, result |-> <<>>]

Init ==
    /\ tree = MakeQuadtree(<<0, 0>>, <<Scale, Scale>>)
    /\ pos = [o \in Objects |-> ZeroPos]
    /\ tracked = {}
    /\ panicked = FALSE
    /\ misused = FALSE
    /\ mutex = [w |-> 0, r |-> {}]
    /\ pc = [th \in Threads |-> "idle"]
    /\ call = [th \in Threads |-> NoCall]
    /\ ncalls = 0

\* What the caller may add next, and where.
MayAdd(o, c) ==
    /\ o \notin tracked
    /\ o \in Ballast => /\ c = Home
                        /\ \A b \in Ballast : b \in tracked <=> b < o
    /\ o \in Free => c \in Positions

MayRemove(o) ==
    /\ o \in tracked
    /\ o \in Ballast => \A b \in Ballast : b > o => b \notin tracked

\* What the caller may move, and where to.
MayMove(o, to) ==
    /\ o \in tracked
    /\ o \in Ballast => /\ to = Home
                        /\ \A b \in Ballast : b > o => b \notin tracked
    /\ o \in Free => to \in Positions

\* Quadtree.Add (the lock is uncontended with one caller).
Add(o, c) ==
    /\ ~panicked
    /\ MayAdd(o, c)
    /\ LET P == [pos EXCEPT ![o] = c]
       IN  /\ pos' = P
           /\ tree' = add(checkExpand(tree, c), o, P)
    /\ tracked' = tracked \cup {o}
    /\ UNCHANGED <<panicked, misused, tvars>>

\* Quadtree.Remove
Remove(o) ==
    /\ ~panicked
    /\ MayRemove(o)
    /\ LET r == remove(tree, o, pos)
       IN  /\ tree' = r.node
           /\ panicked' = ~r.ok
           /\ tracked' = IF r.ok THEN tracked \ {o} ELSE tracked
    /\ UNCHANGED <<pos, misused, tvars>>

\* Quadtree.Move
Move(o, to) ==
    /\ ~panicked
    /\ MayMove(o, to)
    /\ IF testPresent(tree, o, to)
       THEN /\ pos' = [pos EXCEPT ![o] = to]
            /\ UNCHANGED <<tree, panicked>>
       ELSE LET r == remove(tree, o, pos)
                P == [pos EXCEPT ![o] = to]
            IN  IF r.ok
                THEN /\ pos' = P
                     /\ tree' = add(checkExpand(r.node, to), o, P)
                     /\ UNCHANGED panicked
                ELSE /\ tree' = r.node
                     /\ panicked' = TRUE
                     /\ UNCHANGED pos
    /\ UNCHANGED <<tracked, misused, tvars>>

Next ==
    \/ \E o \in Objects, c \in Positions : Add(o, c)
    \/ \E o \in Objects : Remove(o)
    \/ \E o \in Objects, to \in Positions : Move(o, to)

Spec == Init /\ [][Next]_vars

---------------------------------------------------------------------------
\* Misuse: the caller passes an object that is not tracked.

\* Quadtree.Remove on an untracked object.
RemoveUntracked(o) ==
    /\ ~panicked
    /\ o \notin tracked
    /\ LET r == remove(tree, o, pos)
       IN  /\ tree' = r.node
           /\ panicked' = ~r.ok
    /\ misused' = TRUE
    /\ UNCHANGED <<pos, tracked, tvars>>

\* Quadtree.Move on an untracked object.
MoveUntracked(o, to) ==
    /\ ~panicked
    /\ o \notin tracked
    /\ IF testPresent(tree, o, to)
       THEN /\ pos' = [pos EXCEPT ![o] = to]
            /\ UNCHANGED <<tree, panicked>>
       ELSE LET r == remove(tree, o, pos)
                P == [pos EXCEPT ![o] = to]
            IN  IF r.ok
                THEN /\ pos' = P
                     /\ tree' = add(checkExpand(r.node, to), o, P)
                     /\ UNCHANGED panicked
                ELSE /\ tree' = r.node
                     /\ panicked' = TRUE
                     /\ UNCHANGED pos
    /\ misused' = TRUE
    /\ UNCHANGED <<tracked, tvars>>

NextMisuse ==
    \/ Next
    \/ \E o \in Objects : RemoveUntracked(o)
    \/ \E o \in Objects, to \in Positions : MoveUntracked(o, to)

SpecMisuse == Init /\ [][NextMisuse]_vars

---------------------------------------------------------------------------
\* The concurrent specification: Threads call the public operations on one
\* tree.  A call is a sequence of steps; pc[th] names the next one.

\* sync.RWMutex: Lock waits until no thread holds the lock in either mode,
\* RLock until no thread holds it exclusively.
CanLock(m) == m.w = 0 /\ m.r = {}
CanRLock(m) == m.w = 0

\* Move asks for the read lock again where it should ask for the exclusive one.
LockModeMoveShared(label) ==
    IF label \in {"AddLock", "RemoveLock"} THEN "w" ELSE "r"

\* The lock call each waiting step makes: "w" for mutex.Lock(), "r" for
\* mutex.RLock().
LockMode(label) ==
    IF label \in {"AddLock", "RemoveLock", "MoveLock"} THEN "w" ELSE "r"

\* The step that follows each lock call.
AfterLock(label) ==
    CASE label = "AddLock" -> "AddBody"
      [] label = "RemoveLock" -> "RemoveBody"
      [] label = "MoveLock" -> "MoveRemove"
      [] label = "MoveRLock" -> "MoveProbe"
      [] label = "FindRLock" -> "FindBody"

LockLabels == {"AddLock", "RemoveLock", "MoveLock", "MoveRLock", "FindRLock"}

\* Positions and queries the threads use.
ThreadPositions == {Home, <<3 * Grid, 3 * Grid>>, <<8 * Grid, Grid>>}
ThreadQueries == {<<3 * Grid, Grid>>, <<3 * Grid, 3 * Grid>>}
ThreadRadii == {0}

\* The objects some thread's call in progress works on: every object is
\* handled by at most one thread at a time.
Busy == {call[th].o : th \in {t \in Threads : pc[t] # "idle"}}

\* A sequential prefix run by the main thread before the threads start:
\* a list of calls [op, o, c], each Quadtree.Add or Quadtree.Remove.
AddCall(o, c) == [op |-> "Add", o |-> o, c |-> c]
RemoveCall(o) == [op |-> "Remove", o |-> o, c |-> ZeroPos]

RECURSIVE AfterCalls(_, _, _, _, _)
\* The tree, the positions and the tracked set after the calls cs[n], cs[n+1],
\* ... made one after the other from tree t, positions P and tracked set tr.
\* A remove that panics ends the run.
AfterCalls(cs, n, t, P, tr) ==
    IF n > Len(cs)
    THEN [tree |-> t, pos |-> P, tracked |-> tr]
    ELSE LET k == cs[n]
             P2 == IF k.op = "Add" THEN [P EXCEPT ![k.o] = k.c] ELSE P
             r == IF k.op = "Add"
                  THEN [node |-> add(checkExpand(t, k.c), k.o, P2), ok |-> TRUE]
                  ELSE remove(t, k.o, P)
             tr2 == IF k.op = "Add" THEN tr \cup {k.o} ELSE tr \ {k.o}
         IN  IF r.ok
             THEN AfterCalls(cs, n + 1, r.node, P2, tr2)
             ELSE [tree |-> r.node, pos |-> P2, tracked |-> tr]

\* The state after the constructor and the calls of list cs.
AfterPrefix(cs) ==
    AfterCalls(cs, 1, MakeQuadtree(<<0, 0>>, <<Scale, Scale>>),
               [o \in Objects |-> ZeroPos], {})

\* Prefix 1: all ballast but the last is added; the root is a leaf one Add
\* short of maxObjectsPerQuadtree.
PrefixLeaf == [i \in 1 .. (NumBallast - 1) |-> AddCall(i, Home)]

\* Prefix 2: all ballast and the first free object are added, which splits the
\* root, and ballast is removed until minObjectsPerQuadtree objects are left:
\* the root is internal and the next remove merges it.
PrefixSplit ==
    [i \in 1 .. NumBallast |-> AddCall(i, Home)]
    \o <<AddCall(NumBallast + 1, <<3 * Grid, 3 * Grid>>)>>
    \o [i \in 1 .. (NumBallast + 1 - minObjectsPerQuadtree) |->
            RemoveCall(NumBallast + 1 - i)]

Prefixes == {PrefixLeaf, PrefixSplit}

\* The threads start after one of the prefixes.
InitThreads ==
    /\ \E cs \in Prefixes :
         LET s == AfterPrefix(cs)
         IN  /\ tree = s.tree
             /\ pos = s.pos
             /\ tracked = s.tracked
    /\ panicked = FALSE
    /\ misused = FALSE
    /\ mutex = [w |-> 0, r |-> {}]
    /\ pc = [th \in Threads |-> "idle"]
    /\ call = [th \in Threads |-> NoCall]
    /\ ncalls = 0

\* A call may start while fewer than MaxCalls have been started.
Start(th) ==
    /\ ~panicked
    /\ pc[th] = "idle"
    /\ ncalls < MaxCalls
    /\ ncalls' = ncalls + 1

Goto(th, label) == pc' = [pc EXCEPT ![th] = label]

\* A thread enters Add, Remove, Move or FindNearObjects.
CallAdd(th, o, c) ==
    /\ Start(th)
    /\ o \notin Busy /\ MayAdd(o, c) /\ c \in ThreadPositions
    /\ call' = [call EXCEPT ![th] = [NoCall EXCEPT !.op = "Add", !.o = o, !.to = c]]
    /\ Goto(th, "AddLock")
    /\ UNCHANGED <<tree, pos, tracked, panicked, misused, mutex>>

CallRemove(th, o) ==
    /\ Start(th)
    /\ o \notin Busy /\ MayRemove(o)
    /\ call' = [call EXCEPT ![th] = [NoCall EXCEPT !.op = "Remove", !.o = o]]
    /\ Goto(th, "RemoveLock")
    /\ UNCHANGED <<tree, pos, tracked, panicked, misused, mutex>>

CallMove(th, o, to) ==
    /\ Start(th)
    /\ o \notin Busy /\ MayMove(o, to) /\ to \in ThreadPositions
    /\ call' = [call EXCEPT ![th] = [NoCall EXCEPT !.op = "Move", !.o = o, !.to = to]]
    /\ Goto(th, "MoveRLock")
    /\ UNCHANGED <<tree, pos, tracked, panicked, misused, mutex>>

CallFind(th, p, dist) ==
    /\ Start(th)
    /\ p \in ThreadQueries
    /\ call' = [call EXCEPT ![th] = [NoCall EXCEPT !.op = "Find", !.to = p, !.dist = dist]]
    /\ Goto(th, "FindRLock")
    /\ UNCHANGED <<tree, pos, tracked, panicked, misused, mutex>>

\* t.mutex.Lock() or t.mutex.RLock() returns.
Acquire(th) ==
    /\ ~panicked /\ pc[th] \in LockLabels
    /\ IF LockMode(pc[th]) = "w"
       THEN /\ CanLock(mutex)
            /\ mutex' = [mutex EXCEPT !.w = th]
       ELSE /\ CanRLock(mutex)
            /\ mutex' = [mutex EXCEPT !.r = @ \cup {th}]
    /\ Goto(th, AfterLock(pc[th]))
    /\ UNCHANGED <<tree, pos, tracked, panicked, misused, call, ncalls>>

\* Add: o.setPosition(c); t.checkExpand(c); t.add(o)
AddBody(th) ==
    /\ ~panicked /\ pc[th] = "AddBody"
    /\ LET o == call[th].o
           P == [pos EXCEPT ![o] = call[th].to]
       IN  /\ pos' = P
           /\ tree' = add(checkExpand(tree, call[th].to), o, P)
           /\ tracked' = tracked \cup {o}
    /\ Goto(th, "Unlock")
    /\ UNCHANGED <<panicked, misused, mutex, call, ncalls>>

\* Remove: t.remove(o).  A panic ends the program with the lock held.
RemoveBody(th) ==
    /\ ~panicked /\ pc[th] = "RemoveBody"
    /\ LET r == remove(tree, call[th].o, pos)
       IN  /\ tree' = r.node
           /\ panicked' = ~r.ok
           /\ tracked' = IF r.ok THEN tracked \ {call[th].o} ELSE tracked
           /\ Goto(th, IF r.ok THEN "Unlock" ELSE "RemoveBody")
    /\ UNCHANGED <<pos, misused, mutex, call, ncalls>>

\* Move, under the read lock: testPresent(o, to).  When it holds, treeChanged
\* becomes false and setPosition follows; otherwise RUnlock follows.
MoveProbe(th) ==
    /\ ~panicked /\ pc[th] = "MoveProbe"
    /\ call' = [call EXCEPT ![th].old = pos[call[th].o]]
    /\ Goto(th, IF testPresent(tree, call[th].o, call[th].to)
                THEN "MoveSet" ELSE "MoveRUnlock")
    /\ UNCHANGED <<tree, pos, tracked, panicked, misused, mutex, ncalls>>

\* Move, under the read lock: o.setPosition(to) stores the two float64 of
\* Handle.pos one after the other, unordered with the loads of a concurrent
\* FindNearObjects.  Axis i is stored here.
MoveSet(th, i) ==
    /\ ~panicked /\ pc[th] = "MoveSet"
    /\ i \notin call[th].done
    /\ pos' = [pos EXCEPT ![call[th].o][i] = call[th].to[i]]
    /\ call' = [call EXCEPT ![th].done = @ \cup {i}]
    /\ Goto(th, IF call[th].done \cup {i} = {1, 2} THEN "MoveRUnlock" ELSE "MoveSet")
    /\ UNCHANGED <<tree, tracked, panicked, misused, mutex, ncalls>>

\* Move with RUnlock inside the local branch only: on the other path the
\* thread goes on to mutex.Lock() with its read lock still held.
MoveRUnlockKeep(th) ==
    /\ ~panicked /\ pc[th] = "MoveRUnlock"
    /\ IF call[th].done = {1, 2}
       THEN /\ mutex' = [mutex EXCEPT !.r = @ \ {th}]
            /\ Goto(th, "idle")
            /\ call' = [call EXCEPT ![th] = NoCall]
       ELSE /\ Goto(th, "MoveLock")
            /\ UNCHANGED <<mutex, call>>
    /\ UNCHANGED <<tree, pos, tracked, panicked, misused, ncalls>>

\* Move: t.mutex.RUnlock(), then the test of treeChanged.
MoveRUnlock(th) ==
    /\ ~panicked /\ pc[th] = "MoveRUnlock"
    /\ mutex' = [mutex EXCEPT !.r = @ \ {th}]
    /\ IF call[th].done = {1, 2}
       THEN /\ Goto(th, "idle")
            /\ call' = [call EXCEPT ![th] = NoCall]
       ELSE /\ Goto(th, "MoveLock")
            /\ UNCHANGED call
    /\ UNCHANGED <<tree, pos, tracked, panicked, misused, ncalls>>

\* Move, under the exclusive lock: t.remove(o)
MoveRemove(th) ==
    /\ ~panicked /\ pc[th] = "MoveRemove"
    /\ LET r == remove(tree, call[th].o, pos)
       IN  /\ tree' = r.node
           /\ panicked' = ~r.ok
           /\ Goto(th, IF r.ok THEN "MoveAdd" ELSE "MoveRemove")
    /\ UNCHANGED <<pos, tracked, misused, mutex, call, ncalls>>

\* Move, under the exclusive lock: o.setPosition(to); t.checkExpand(to); t.add(o)
MoveAdd(th) ==
    /\ ~panicked /\ pc[th] = "MoveAdd"
    /\ LET o == call[th].o
           P == [pos EXCEPT ![o] = call[th].to]
       IN  /\ pos' = P
           /\ tree' = add(checkExpand(tree, call[th].to), o, P)
    /\ Goto(th, "Unlock")
    /\ UNCHANGED <<tracked, panicked, misused, mutex, call, ncalls>>

\* FindNearObjects, under the read lock: t.findNearObjects(pos, dist, &objList)
FindBody(th) ==
    /\ ~panicked /\ pc[th] = "FindBody"
    /\ call' = [call EXCEPT ![th].result =
                    findNearObjects(tree, call[th].to, call[th].dist, <<>>, pos)]
    /\ Goto(th, "FindRUnlock")
    /\ UNCHANGED <<tree, pos, tracked, panicked, misused, mutex, ncalls>>

\* FindNearObjects: t.mutex.RUnlock(); return objList
FindRUnlock(th) ==
    /\ ~panicked /\ pc[th] = "FindRUnlock"
    /\ mutex' = [mutex EXCEPT !.r = @ \ {th}]
    /\ call' = [call EXCEPT ![th] = NoCall]
    /\ Goto(th, "idle")
    /\ UNCHANGED <<tree, pos, tracked, panicked, misused, ncalls>>

\* Add, Remove, Move: t.mutex.Unlock(); return
Unlock(th) ==
    /\ ~panicked /\ pc[th] = "Unlock"
    /\ mutex' = [mutex EXCEPT !.w = 0]
    /\ call' = [call EXCEPT ![th] = NoCall]
    /\ Goto(th, "idle")
    /\ UNCHANGED <<tree, pos, tracked, panicked, misused, ncalls>>

NextThreads ==
    \/ \E th \in Threads, o \in Objects, c \in ThreadPositions : CallAdd(th, o, c)
    \/ \E th \in Threads, o \in Objects : CallRemove(th, o)
    \/ \E th \in Threads, o \in Objects, to \in ThreadPositions : CallMove(th, o, to)
    \/ \E th \in Threads, p \in ThreadQueries, d \in ThreadRadii : CallFind(th, p, d)
    \/ \E th \in Threads : Acquire(th)
    \/ \E th \in Threads : AddBody(th)
    \/ \E th \in Threads : RemoveBody(th)
    \/ \E th \in Threads : MoveProbe(th)
    \/ \E th \in Threads, i \in {1, 2} : MoveSet(th, i)
    \/ \E th \in Threads : MoveRUnlock(th)
    \/ \E th \in Threads : MoveRemove(th)
    \/ \E th \in Threads : MoveAdd(th)
    \/ \E th \in Threads : FindBody(th)
    \/ \E th \in Threads : FindRUnlock(th)
    \/ \E th \in Threads : Unlock(th)

SpecThreads == InitThreads /\ [][NextThreads]_vars

\* The labels of pc.
Labels ==
    {"idle", "AddBody", "RemoveBody", "MoveProbe", "MoveSet", "MoveRUnlock",
     "MoveRemove", "MoveAdd", "FindBody", "FindRUnlock", "Unlock"} \cup LockLabels

\* Thread th is in a call and its next step waits for nothing: it is not at
\* a lock call, or the lock call can return.
Runnable(th) ==
    /\ ~panicked
    /\ pc[th] # "idle"
    /\ pc[th] \in LockLabels =>
           IF LockMode(pc[th]) = "w" THEN CanLock(mutex) ELSE CanRLock(mutex)

\* Thread th takes the next step of its call: every step of a call but a
\* panic moves pc[th] to another label.
Progress(th) ==
    /\ Runnable(th)
    /\ \E l \in Labels \ {pc[th]} : pc' = [pc EXCEPT ![th] = l]

\* Fair scheduling and a fair lock: a thread that is runnable from some point
\* on without end takes its step.
Fairness == \A th \in Threads : WF_pc(Progress(th))

SpecFair == InitThreads /\ [][NextThreads]_vars /\ Fairness

---------------------------------------------------------------------------
\* Observations of a state, used by the properties below.

\* Quadtree.FindNearObjects in the current state (the read lock is free when
\* no call is in progress).
FindNearObjects(p, dist) == findNearObjects(tree, p, dist, <<>>, pos)

\* Query inputs: every object position plus one more point, and radii 0,
\* 0.25 and 0.5.
QueryPositions == Positions \cup {<<3 * Grid, Grid>>}
Radii == {0, Grid, 2 * Grid}

Range(s) == {s[i] : i \in 1 .. Len(s)}

Occurrences(s, o) == Cardinality({i \in 1 .. Len(s) : s[i] = o})

\* Every object held in some leaf list of t, in traversal order.
LeafObjects(t) == collectObjects(t, <<>>)

\* A scan over all tracked objects: those within dist of p.
Scan(p, dist) ==
    {o \in tracked : computeDist2(p, pos[o]) <= (dist \div Grid) * (dist \div Grid)}

RECURSIVE NodeCountsOk(_)
NodeCountsOk(t) ==
    /\ t.numObjects >= 0
    /\ IF t.hasChildren
       THEN /\ t.numObjects = Child(t, <<0, 0>>).numObjects + Child(t, <<0, 1>>).numObjects
                              + Child(t, <<1, 0>>).numObjects + Child(t, <<1, 1>>).numObjects
            /\ \A x \in {0, 1}, y \in {0, 1} : NodeCountsOk(Child(t, <<x, y>>))
       ELSE t.numObjects = Len(t.objects)

InBox(t, c) == \A i \in {1, 2} : t.corner1[i] <= c[i] /\ c[i] <= t.corner2[i]

\* The routing rule as the specification words it: per axis, index 0 when the
\* coordinate is <= the center, index 1 otherwise.
RuleQuadrant(t, c) ==
    <<IF c[1] <= t.center[1] THEN 0 ELSE 1, IF c[2] <= t.center[2] THEN 0 ELSE 1>>

RECURSIVE RoutedLeaf(_, _)
\* The leaf reached from t by the rule for position c.
RoutedLeaf(t, c) ==
    IF t.hasChildren THEN RoutedLeaf(Child(t, RuleQuadrant(t, c)), c) ELSE t

RECURSIVE Nodes(_)
\* Every node of the tree below and including t.
Nodes(t) ==
    IF t.hasChildren
    THEN {t} \cup UNION {Nodes(Child(t, <<x, y>>)) : x \in {0, 1}, y \in {0, 1}}
    ELSE {t}

---------------------------------------------------------------------------
\* C1 (query correctness): in every state between calls, FindNearObjects(p, dist)
\* returns exactly the set of tracked objects whose squared distance from
\* their recorded position to p is <= dist*dist.
QueryCorrectness ==
    ~panicked =>
        \A p \in QueryPositions, d \in Radii :
            Range(FindNearObjects(p, d)) = Scan(p, d)

\* C2 (count invariant): between calls the root's numObjects is the number of
\* objects added and not yet removed, every leaf's numObjects is the length
\* of its list, every internal node's is the sum over its four children, and
\* no numObjects is negative.
CountInvariant ==
    ~panicked => (tree.numObjects = Cardinality(tracked) /\ NodeCountsOk(tree))

\* C3 (empty round trip): a new tree is Empty; with one object tracked the
\* tree is not Empty and numObjects is 1; the caller's Removes never abort,
\* and once every added object is removed again the tree is Empty.
EmptyRoundTrip ==
    /\ ~panicked
    /\ tracked = {} => (Empty(tree) /\ ~tree.hasChildren /\ tree.objects = <<>>)
    /\ Cardinality(tracked) = 1 => (~Empty(tree) /\ tree.numObjects = 1)

\* C4 (Move preserves membership): a step Move(o, to) ends with pos[o] = to,
\* the same root numObjects and the same set of objects held by the tree,
\* with o among them and returned by FindNearObjects(to, 0), and with o not
\* returned by a radius-0 query at its old position when that differs from to.
MovePreservesMembership ==
    [][\A o \in Objects, to \in Positions :
          Move(o, to) =>
            /\ ~panicked'
            /\ pos'[o] = to
            /\ tree'.numObjects = tree.numObjects
            /\ LET before == LeafObjects(tree)
                   after == LeafObjects(tree')
               IN  /\ Range(after) = Range(before)
                   /\ Len(after) = Len(before)
            /\ o \in Range(findNearObjects(tree', to, 0, <<>>, pos'))
            /\ pos[o] # to =>
                 o \notin Range(findNearObjects(tree', pos[o], 0, <<>>, pos'))]_vars

\* C5 (expansion correctness): a step Add(o, c) with c outside the root box
\* does not abort, ends with c inside the root box and o returned by
\* FindNearObjects(c, 0), and every object tracked before the call is still
\* returned by a radius-0 query at its own position.
ExpansionCorrectness ==
    [][\A o \in Objects, c \in Positions :
          (Add(o, c) /\ ~InBox(tree, c)) =>
            /\ ~panicked'
            /\ InBox(tree', c)
            /\ o \in Range(findNearObjects(tree', c, 0, <<>>, pos'))
            /\ \A o2 \in tracked :
                 o2 \in Range(findNearObjects(tree', pos'[o2], 0, <<>>, pos'))]_vars

\* C7 (no duplicates): between calls every tracked object occurs exactly once
\* in the leaf lists of the tree, and at most once in any query result.
NoDuplicates ==
    ~panicked =>
        /\ \A o \in tracked : Occurrences(LeafObjects(tree), o) = 1
        /\ \A p \in QueryPositions, d \in Radii, o \in Objects :
               Occurrences(FindNearObjects(p, d), o) <= 1

\* C10 (routing invariant): fileObject and testPresent choose the child by
\* the same rule (index 0 iff the coordinate is <= the center), and between
\* calls every tracked object is in the leaf that rule reaches from the root
\* for the object's recorded position.
RoutingInvariant ==
    ~panicked =>
        /\ \A n \in Nodes(tree), c \in QueryPositions :
               /\ fileQuadrant(n, c) = RuleQuadrant(n, c)
               /\ testQuadrant(n, c) = RuleQuadrant(n, c)
        /\ \A o \in tracked : o \in Range(RoutedLeaf(tree, pos[o]).objects)

---------------------------------------------------------------------------
\* Properties of the concurrent specification.

\* The threads that have begun, and not finished, the two stores of a local
\* Move's setPosition.
Storing == {m \in Threads : pc[m] = "MoveSet"}

\* The position functions a query may be serialized against: each object of
\* a local Move in progress is at its old or at its new position, every other
\* object where it is.
SerialPositions ==
    {[o \in Objects |->
        IF \E m \in Storing : call[m].o = o
        THEN LET m == CHOOSE m \in Storing : call[m].o = o
             IN  IF m \in S THEN call[m].to ELSE call[m].old
        ELSE pos[o]] : S \in SUBSET Storing}

\* C6 (concurrency safety): the list a FindNearObjects traversal collects is
\* what the same query gives when it runs before or after each concurrent
\* call, a local Move under the read lock included.
QueryLinearizable ==
    [][\A th \in Threads :
          FindBody(th) =>
            \E P \in SerialPositions :
                Range(call'[th].result)
                    = Range(findNearObjects(tree, call[th].to, call[th].dist, <<>>, P))]_vars

\* C8 (misuse is fatal): once Remove or Move has been called for an object
\* that is not tracked, the program has ended in a panic.
MisuseIsFatal == misused => panicked

\* A misuse that panicked inside a split tree that still tracks objects.
MisuseWitness == misused /\ panicked /\ tree.hasChildren /\ tree.numObjects >= 0

ExclusiveSteps == {"AddBody", "RemoveBody", "MoveRemove", "MoveAdd", "Unlock"}
SharedSteps == {"MoveProbe", "MoveSet", "MoveRUnlock", "FindBody", "FindRUnlock"}

LockExclusion ==
    /\ mutex.w # 0 => mutex.r = {}
    /\ \A th \in Threads : pc[th] \in ExclusiveSteps => mutex.w = th
    /\ \A th \in Threads : pc[th] \in SharedSteps => (th \in mutex.r /\ mutex.w = 0)

\* C9 (mutual exclusion of structural change): a thread between Lock and
\* Unlock is the one holder of the exclusive lock and no thread holds the read
\* lock then; a thread in a traversal or a probe holds the read lock with no
\* exclusive holder; and every step that changes the tree is taken by the
\* thread that holds the exclusive lock before and after it.
ExclusiveStructuralChange ==
    /\ []LockExclusion
    /\ [][tree' # tree =>
            /\ mutex.w # 0 /\ mutex.r = {} /\ mutex' = mutex
            /\ pc[mutex.w] \in ExclusiveSteps
            /\ \A th \in Threads \ {mutex.w} : pc'[th] = pc[th]]_vars

\* A Move holds the exclusive lock between its remove and its add while
\* another thread waits for the read lock.
ExclusiveWitness ==
    \E th \in Threads, rd \in Threads :
        /\ mutex.w = th /\ pc[th] = "MoveAdd"
        /\ pc[rd] \in {"FindRLock", "MoveRLock"}

---------------------------------------------------------------------------
\* C11 (local move leaves the tree unchanged): Move's probe chooses the local
\* path exactly when o is in the leaf that its new position routes to; the
\* stores of the local path change the recorded position of o and nothing
\* else, under the read lock, and the call then returns without asking for
\* the exclusive lock; on the other path the remove takes o out of the tree
\* and the add puts it back, both inside one holding of the exclusive lock.
LocalMoveFrame ==
    [][\A th \in Threads :
          LET o == call[th].o
              to == call[th].to
          IN  /\ MoveProbe(th) =>
                    (pc'[th] = "MoveSet"
                        <=> o \in Range(RoutedLeaf(tree, to).objects))
              /\ (\E i \in {1, 2} : MoveSet(th, i)) =>
                    /\ tree' = tree /\ tracked' = tracked
                    /\ mutex' = mutex /\ mutex.w = 0 /\ th \in mutex.r
                    /\ \A o2 \in Objects \ {o} : pos'[o2] = pos[o2]
              /\ (MoveRUnlock(th) /\ call[th].done = {1, 2}) =>
                    /\ pc'[th] = "idle" /\ mutex'.w = 0
                    /\ pos[o] = to /\ tree' = tree
              /\ MoveRemove(th) =>
                    /\ ~panicked' /\ pc'[th] = "MoveAdd"
                    /\ mutex.w = th /\ mutex' = mutex
                    /\ o \notin Range(LeafObjects(tree'))
              /\ MoveAdd(th) =>
                    /\ pc'[th] = "Unlock"
                    /\ mutex.w = th /\ mutex' = mutex
                    /\ pos'[o] = to
                    /\ o \in Range(LeafObjects(tree'))]_vars

---------------------------------------------------------------------------
\* C12 (box containment): between calls the recorded position of every
\* tracked object lies within the root box on both axes, and the position of
\* every object in a leaf list lies within the box of that leaf; so a Move
\* to a position outside the root box has expanded the box, as an Add does.
BoxContainment ==
    ~panicked =>
        /\ \A o \in tracked : InBox(tree, pos[o])
        /\ \A n \in Nodes(tree) :
               ~n.hasChildren => \A o \in Range(n.objects) : InBox(n, pos[o])

---------------------------------------------------------------------------
\* The box of quadrant <<x, y>> when the box of t is cut in four equal
\* quarters: <<corner1, corner2>> of that quarter.
Quarter(t, x, y) ==
    LET mid == <<(t.corner1[1] + t.corner2[1]) \div 2,
                 (t.corner1[2] + t.corner2[2]) \div 2>>
    IN  << <<IF x = 0 THEN t.corner1[1] ELSE mid[1],
             IF y = 0 THEN t.corner1[2] ELSE mid[2]>>,
           <<IF x = 0 THEN mid[1] ELSE t.corner2[1],
             IF y = 0 THEN mid[2] ELSE t.corner2[2]>> >>

\* C13 (center is the midpoint): in every state the center of every node, the
\* root after box expansions included, is the midpoint of its two corners on
\* both axes, and the boxes of the four children of an internal node are the
\* four equal quarters of the node's box.
CenterIsMidpoint ==
    \A n \in Nodes(tree) :
        /\ \A i \in {1, 2} : 2 * n.center[i] = n.corner1[i] + n.corner2[i]
        /\ n.hasChildren =>
               \A x \in {0, 1}, y \in {0, 1} :
                   <<Child(n, <<x, y>>).corner1, Child(n, <<x, y>>).corner2>>
                       = Quarter(n, x, y)

---------------------------------------------------------------------------
\* What C14 says of one call t.checkExpand(c) that turns root t into t2.
ExpandEffect(t, c, t2) ==
    IF InBox(t, c)
    THEN t2 = t
    ELSE /\ ~t2.hasChildren /\ t2.children = <<>>
         /\ t2.numObjects = t.numObjects
         /\ Range(t2.objects) = Range(LeafObjects(t))
         /\ Len(t2.objects) = Len(LeafObjects(t))
         /\ \A i \in {1, 2} :
              /\ t2.corner1[i] <= t.corner1[i] /\ t.corner2[i] <= t2.corner2[i]
              /\ ~(c[i] < t.corner1[i]) => t2.corner1[i] = t.corner1[i]
              /\ ~(c[i] > t.corner2[i]) => t2.corner2[i] = t.corner2[i]
              /\ c[i] < t.corner1[i] => t2.corner1[i] < c[i]
              /\ c[i] > t.corner2[i] => t2.corner2[i] > c[i]

\* C14 (effect of box expansion): the checkExpand(c) that an Add or a
\* non-local Move runs changes nothing when c is inside the root box;
\* otherwise it leaves the root a single leaf that holds exactly the objects
\* the tree held, with the same numObjects, keeps each corner coordinate of
\* an axis on which c was in range, and moves each violated edge outward to
\* strictly beyond c, the new box containing the old one.
ExpansionEffect ==
    [][/\ \A o \in Objects, c \in Positions :
            Add(o, c) => ExpandEffect(tree, c, checkExpand(tree, c))
       /\ \A o \in Objects, to \in Positions :
            (Move(o, to) /\ ~testPresent(tree, o, to)) =>
                LET r == remove(tree, o, pos)
                IN  r.ok => ExpandEffect(r.node, to, checkExpand(r.node, to))]_vars

---------------------------------------------------------------------------
\* The objects the leaf lists of the tree hold at position c.
HeldAt(c) == {o \in Range(LeafObjects(tree)) : pos[o] = c}

---------------------------------------------------------------------------
Quadrants == {<<0, 0>>, <<0, 1>>, <<1, 0>>, <<1, 1>>}

RECURSIVE Paths(_)
\* The nodes of t by name: the list of quadrants that leads from t to each.
Paths(t) ==
    IF t.hasChildren
    THEN {<<>>} \cup UNION {{<<q>> \o p : p \in Paths(Child(t, q))} : q \in Quadrants}
    ELSE {<<>>}

RECURSIVE NodeAt(_, _)
NodeAt(t, p) == IF p = <<>> THEN t ELSE NodeAt(Child(t, Head(p)), Tail(p))

\* The step leaves the root box as it is.
NoExpansion == tree'.corner1 = tree.corner1 /\ tree'.corner2 = tree.corner2

\* C16 (hysteresis): between calls every internal node counts at least
\* minObjectsPerQuadtree objects; and in a call without box expansion a count
\* changes by at most one, a leaf that becomes internal counts
\* maxObjectsPerQuadtree + 1 afterwards, and an internal node becomes a leaf
\* only when it counted minObjectsPerQuadtree before the call.  So a node
\* that has split merges after maxObjectsPerQuadtree - minObjectsPerQuadtree
\* + 2 removals at the earliest, and never in the Remove that follows its
\* split.
Hysteresis ==
    /\ [](~panicked =>
            \A n \in Nodes(tree) :
                n.hasChildren => n.numObjects >= minObjectsPerQuadtree)
    /\ [][NoExpansion =>
            \A p \in Paths(tree) \cap Paths(tree') :
                LET n == NodeAt(tree, p)
                    n2 == NodeAt(tree', p)
                IN  /\ n2.numObjects - n.numObjects \in {0 - 1, 0, 1}
                    /\ (~n.hasChildren /\ n2.hasChildren) =>
                           n2.numObjects = maxObjectsPerQuadtree + 1
                    /\ (n.hasChildren /\ ~n2.hasChildren) =>
                           n.numObjects = minObjectsPerQuadtree]_vars

\* In the box of the constructor the root has split and has since lost
\* objects down to minObjectsPerQuadtree, one short of its merge.
HysteresisWitness ==
    /\ ~panicked
    /\ tree.corner1 = <<0, 0>> /\ tree.corner2 = <<Scale, Scale>>
    /\ tree.hasChildren /\ tree.numObjects = minObjectsPerQuadtree
    /\ Cardinality(tracked) = minObjectsPerQuadtree

---------------------------------------------------------------------------
\* Radii of both signs: -0.5, -0.25, 0, 0.25 and 0.5.
SignedRadii == {0 - 2 * Grid, 0 - Grid, 0, Grid, 2 * Grid}

\* A scan over the objects the leaf lists hold, whatever the tree's shape:
\* those whose squared distance to p is <= dist*dist.
HeldNear(p, dist) ==
    {o \in Range(LeafObjects(tree)) :
        computeDist2(p, pos[o]) <= (dist \div Grid) * (dist \div Grid)}

\* C17 (conservative pruning): between calls, for every query position,
\* inside or outside the root box, and every radius, negative ones included,
\* the traversal skips no quadrant that holds an object whose squared
\* distance to the position is <= radius*radius: what FindNearObjects returns
\* is what a scan over the objects in the tree returns, in every shape of the
\* tree.
ConservativePruning ==
    ~panicked =>
        \A p \in QueryPositions, d \in SignedRadii :
            Range(FindNearObjects(p, d)) = HeldNear(p, d)

---------------------------------------------------------------------------
\* Node n is internal: the flag is set, all four children are there and its
\* own list is empty.
IsInternal(n) ==
    /\ n.hasChildren
    /\ Len(n.children) = 2 /\ Len(n.children[1]) = 2 /\ Len(n.children[2]) = 2
    /\ n.objects = <<>>

\* Node n is a leaf: the flag is clear and all four children are nil.
IsLeaf(n) == ~n.hasChildren /\ n.children = <<>>

\* C18 (leaf/internal exclusivity): while the exclusive lock is free (with
\* one caller: between calls, no call having panicked) every node is either
\* internal or a leaf, never both and never neither; and a call that turns a
\* leaf into an internal node leaves its list empty, one that turns an
\* internal node into a leaf leaves it with no child.
LeafInternalExclusive ==
    /\ [](~panicked =>
            \A n \in Nodes(tree) :
                (IsInternal(n) \/ IsLeaf(n)) /\ ~(IsInternal(n) /\ IsLeaf(n)))
    /\ [][~panicked' =>
            \A p \in Paths(tree) \cap Paths(tree') :
                LET n == NodeAt(tree, p)
                    n2 == NodeAt(tree', p)
                IN  /\ (~n.hasChildren /\ n2.hasChildren) => n2.objects = <<>>
                    /\ (n.hasChildren /\ ~n2.hasChildren) => n2.children = <<>>]_vars

\* Two levels of internal nodes over leaves that hold objects.
LeafInternalWitness ==
    /\ ~panicked
    /\ tree.hasChildren
    /\ \E q \in Quadrants : Child(tree, q).hasChildren
    /\ \E n \in Nodes(tree) : ~n.hasChildren /\ n.objects # <<>>

---------------------------------------------------------------------------
\* C19 (no deadlock, eventual completion): a thread that asks for the lock
\* holds it in neither mode, so Move has released the read lock of its probe
\* before it asks for the exclusive lock; and, under a fair lock and fair
\* scheduling, every call a thread has started returns, unless a call has
\* ended the program in a panic.
EventualCompletion ==
    /\ [](\A th \in Threads :
            pc[th] \in LockLabels => (th \notin mutex.r /\ mutex.w # th))
    /\ \A th \in Threads : (pc[th] # "idle") ~> (pc[th] = "idle" \/ panicked)

\* A Move on its non-local path waits for the exclusive lock while another
\* thread is inside with the read lock.
CompletionWitness ==
    \E th \in Threads, rd \in Threads :
        /\ ~panicked
        /\ pc[th] = "MoveLock" /\ th \notin mutex.r
        /\ rd # th /\ rd \in mutex.r

---------------------------------------------------------------------------
\* C20 (lock released on every exit): a thread that is in no call holds the
\* lock in neither mode, and once a call has ended in a panic no thread holds
\* the lock: the aborted call has released what it had acquired.
LockReleasedOnExit ==
    /\ \A th \in Threads :
           pc[th] = "idle" => (th \notin mutex.r /\ mutex.w # th)
    /\ panicked => (mutex.w = 0 /\ mutex.r = {})

=============================================================================
